---- MODULE Spec2Model ----
(***************************************************************************)
(* ifstat.c: samples one interface's cumulative byte counters every        *)
(* "interval" seconds, derives bytes per second and appends one CSV line   *)
(* per sample until SIGINT/SIGTERM asks it to quit.                        *)
(*                                                                         *)
(* The model follows main() line by line: pc is main's position, every     *)
(* other variable is a C object of the program or a part of its            *)
(* environment the program acts on (the stream, stderr, the exit status).  *)
(* Word widths and the clock resolution are scaled: a uint32_t holds the   *)
(* values 0 .. Modulus-1 and wraps modulo Modulus, the clock counts ticks  *)
(* of 1/TicksPerSec second.  The double division of lines 206/207 is the   *)
(* exact quotient truncated toward zero.  What is assigned and last read   *)
(* within one action (new_tv, tv, cur_inb, cur_outb, the date string t) is *)
(* local to that action.  A signal handler only assigns quit, which the    *)
(* loop reads at line 224 alone, so signals are delivered between actions. *)
(* An int holds -IntMax-1 .. IntMax and a second has UsecPerSec            *)
(* microseconds.  Spec runs the program on counters below 2^32, WideSpec   *)
(* on counters around 2^32, FairSpec and LongSpec on an idle interface,    *)
(* LongSpec with interval arguments whose value is large for an int.       *)
(***************************************************************************)
EXTENDS Integers, Sequences, FiniteSets, TLC

\* ------------------------------------------------------------- bounds
Modulus == 4
MaxCounter == 1
TicksPerSec == 2
MaxTime == 2
MaxIter == 2
MaxArgLen == 1
MaxIf == 2
MaxWriteFail == 1
IntMax == 3
UsecPerSec == 2

\* ------------------------------------------------------------- domains
Words == 0 .. (Modulus - 1)
\* the values the OS reports in ifi_ibytes/ifi_obytes
Counters == 0 .. MaxCounter
\* counters (u_long, 64 bits) on either side of a multiple of 2^32
WideCounters == {Modulus - 1, Modulus + 1}
Times == 0 .. MaxTime
Chars == {"1", "x"}
IfNames == {"em0", "lo0"}
Targets == {"em0", "wlan0"}
Signals == {"SIGINT", "SIGTERM"}
\* the values of an int and of an int32_t, and of a useconds_t (unsigned int)
Ints == (-IntMax - 1) .. IntMax
UInts == 0 .. (2 * IntMax + 1)
\* the characters of a longer interval argument
LongChars == {"1", "3", "9", "x"}

VARIABLES
    pc,         \* position of main()
    status,     \* "running", "exit0", "exit1" or "killed"
    stderr,     \* what was printed to stderr: "none", "usage", or error()'s func
    argc,       \* argc
    arg2,       \* argv[2], a sequence of characters
    inter,      \* argv[3]
    interval,   \* int32_t interval
    row,        \* int32_t row
    handlers,   \* the signals whose disposition is signalhandler
    quit,       \* int8_t quit
    csv,        \* FILE *csv: [state, lines, flushed]
    data,       \* ifmibdata *data: the counters of the last getifdata
    old_inb,
    old_outb,
    old_tv,
    s,          \* char s[128]: the formatted record, <<in, out>>, or <<>>
    iter,       \* records handed to fwrite so far
    woken,      \* the last usleep was cut short by a signal
    osq,        \* a sysctl query has been made
    ifs,        \* the interface names getifrow was handed by the OS, row by row
    usec        \* the duration asked of the usleep() in progress, else 0

vars == <<pc, status, stderr, argc, arg2, inter, interval, row, handlers, quit,
          csv, data, old_inb, old_outb, old_tv, s, iter, woken, osq, ifs, usec>>

\* ------------------------------------------------------------- helpers
isdigit(c) == c \in {"0", "1", "2", "3", "4", "5", "6", "7", "8", "9"}

DigitVal(c) ==
    CASE c = "0" -> 0 [] c = "1" -> 1 [] c = "2" -> 2 [] c = "3" -> 3
      [] c = "4" -> 4 [] c = "5" -> 5 [] c = "6" -> 6 [] c = "7" -> 7
      [] c = "8" -> 8 [] c = "9" -> 9

\* strtol's conversion from position i on with acc the value so far: it
\* stops at the first character that is not a digit
RECURSIVE strtolFrom(_, _, _)
strtolFrom(str, i, acc) ==
    IF i > Len(str) \/ ~isdigit(str[i]) THEN acc
    ELSE strtolFrom(str, i + 1, 10 * acc + DigitVal(str[i]))

\* strtol(str, NULL, 10) on a string without blanks or sign
strtol(str) == strtolFrom(str, 1, 0)

\* the digit loop stopping one character early (i < strlen(argv[2]) - 1)
BadIntervalShort(str) == \E i \in 1 .. (Len(str) - 1) : ~isdigit(str[i])

\* the digit loop of lines 157-161: some character is not a digit
BadInterval(str) == \E i \in 1 .. Len(str) : ~isdigit(str[i])

Strings == UNION {[1 .. n -> Chars] : n \in 0 .. MaxArgLen}

LongStrings == UNION {[1 .. n -> LongChars] : n \in 0 .. MaxArgLen}

\* line 163: the long that strtol returns stored in the int32_t interval; a
\* value out of range keeps its low bits
int32(x) == ((x + IntMax + 1) % (2 * (IntMax + 1))) - (IntMax + 1)

\* line 228: interval * 1000 * 1000 computed as an int and passed as a
\* useconds_t, the set of values usleep() can be handed.  A product that is
\* no int is a signed overflow, which is undefined: any value may be passed.
usleepArg(i) ==
    IF i * UsecPerSec \in Ints
    THEN {(i * UsecPerSec) % (2 * (IntMax + 1))}
    ELSE UInts

\* getifrow's loop, lines 116-125, over the N descriptors the OS returns
RECURSIVE getifrowFrom(_, _, _)
getifrowFrom(names, ifname, i) ==
    IF i > Len(names) THEN -1
    ELSE IF names[i] = ifname THEN i
    ELSE getifrowFrom(names, ifname, i + 1)

\* the loop running through every row and keeping the last match
getifrowLast(names, ifname) ==
    IF \E i \in 1 .. Len(names) : names[i] = ifname
    THEN CHOOSE i \in 1 .. Len(names) :
            /\ names[i] = ifname
            /\ \A j \in (i + 1) .. Len(names) : names[j] # ifname
    ELSE -1

getifrow(names, ifname) == getifrowFrom(names, ifname, 1)

IfTables == UNION {[1 .. n -> IfNames] : n \in 0 .. MaxIf}

\* C division of a non-negative by a positive integer
Div(a, b) == a \div b

\* lines 202/203 with a difference below zero replaced by 0
DeltaClamped(curr, old) ==
    IF (curr % Modulus) >= old THEN (curr % Modulus) - old ELSE 0

\* uint32_t = u_long - uint32_t, lines 202/203
Delta(curr, old) == (curr - old) % Modulus

\* lines 206/207: cur /= tv.tv_sec + tv.tv_usec * 1e-6, the set of values the
\* uint32_t can hold afterwards.  The quotient is a double; converting a double
\* whose integral part is not a uint32_t value (inf, NaN, <= -1, >= 2^32) is
\* undefined, so any word may result.
Normalize(delta, e) ==
    IF e > 0
    THEN IF Div(delta * TicksPerSec, e) < Modulus
         THEN {Div(delta * TicksPerSec, e)}
         ELSE Words
    ELSE IF e < 0 /\ Div(delta * TicksPerSec, -e) = 0
         THEN {0}
         ELSE Words

\* "%i" of a uint32_t: the word read as a signed int
FormatInt(w) == IF w >= Modulus \div 2 THEN w - Modulus ELSE w

\* ------------------------------------------------------------- initial state
InitOf(args) ==
    /\ pc = "argc"
    /\ status = "running"
    /\ stderr = "none"
    /\ argc \in {3, 4, 5}
    /\ arg2 \in args
    /\ inter \in Targets
    /\ interval = 0
    /\ row = 0
    /\ handlers = {}
    /\ quit = 0
    /\ csv = [state |-> "none", lines |-> <<>>, flushed |-> FALSE]
    /\ data = [in |-> 0, out |-> 0]
    /\ old_inb = 0
    /\ old_outb = 0
    /\ old_tv \in Times          \* timeval old_tv is not initialised (line 192)
    /\ s = <<>>
    /\ iter = 0
    /\ woken = FALSE
    /\ osq = FALSE
    /\ ifs = <<>>
    /\ usec = 0

Init == InitOf(Strings)


\* ------------------------------------------------------------- exits
\* exit(): the C library flushes and closes every open stream
AtExit(f) ==
    IF f.state = "open" THEN [f EXCEPT !.state = "closed", !.flushed = TRUE] ELSE f

\* error(), lines 49-62: one line on stderr naming the function, exit(1)
error(func) ==
    /\ stderr' = func
    /\ status' = "exit1"
    /\ pc' = "exited"
    /\ csv' = AtExit(csv)

\* usage(), lines 64-72
usage ==
    /\ stderr' = "usage"
    /\ status' = "exit1"
    /\ pc' = "exited"
    /\ csv' = AtExit(csv)

\* ------------------------------------------------------------- Starting
\* line 148
CheckArgc ==
    /\ pc = "argc"
    /\ IF argc # 4
       THEN usage
       ELSE /\ pc' = "digits"
            /\ UNCHANGED <<status, stderr, csv>>
    /\ UNCHANGED <<argc, arg2, inter, interval, row, handlers, quit, data,
                   old_inb, old_outb, old_tv, s, iter,
                   woken, osq, ifs, usec>>

\* lines 157-163
ParseInterval ==
    /\ pc = "digits"
    /\ IF BadInterval(arg2)
       THEN usage /\ UNCHANGED interval
       ELSE /\ interval' = int32(strtol(arg2))
            /\ pc' = "getifrow"
            /\ UNCHANGED <<status, stderr, csv>>
    /\ UNCHANGED <<argc, arg2, inter, row, handlers, quit, data,
                   old_inb, old_outb, old_tv, s, iter,
                   woken, osq, ifs, usec>>

\* line 167: int32_t row = getifrow(inter).  The OS answers with a table of
\* descriptors, or one of the queries (or malloc) fails.
Resolve ==
    /\ pc = "getifrow"
    /\ osq' = TRUE
    /\ \/ error("getifnumber") /\ UNCHANGED <<row, ifs>>  \* line 102
       \/ error("getifrow") /\ UNCHANGED <<row, ifs>>     \* line 114
       \/ \E names \in IfTables :
            \/ /\ names # <<>>                           \* line 91, some row i
               /\ error("getifdata")
               /\ UNCHANGED <<row, ifs>>
            \/ /\ row' = getifrow(names, inter)
               /\ ifs' = names
               /\ pc' = "rowcheck"
               /\ UNCHANGED <<status, stderr, csv>>
    /\ UNCHANGED <<argc, arg2, inter, interval, handlers, quit, data,
                   old_inb, old_outb, old_tv, s, iter,
                   woken, usec>>

\* lines 169-170 with an interface that was not found ending the program
\* quietly (return 0)
RowCheckQuiet ==
    /\ pc = "rowcheck"
    /\ ifs' = <<>>
    /\ IF row < 1
       THEN /\ status' = "exit0"
            /\ pc' = "exited"
            /\ UNCHANGED <<stderr, csv>>
       ELSE /\ pc' = "sigint"
            /\ UNCHANGED <<status, stderr, csv>>
    /\ UNCHANGED <<argc, arg2, inter, interval, row, handlers, quit, data,
                   old_inb, old_outb, old_tv, s, iter, woken, osq, usec>>

\* lines 169-170; the names getifrow went through are not looked at again
RowCheck ==
    /\ pc = "rowcheck"
    /\ ifs' = <<>>
    /\ IF row < 1
       THEN error("main")
       ELSE /\ pc' = "sigint"
            /\ UNCHANGED <<status, stderr, csv>>
    /\ UNCHANGED <<argc, arg2, inter, interval, row, handlers, quit, data,
                   old_inb, old_outb, old_tv, s, iter,
                   woken, osq, usec>>

\* line 174
InstallSigint ==
    /\ pc = "sigint"
    /\ handlers' = handlers \cup {"SIGINT"}
    /\ pc' = "sigterm"
    /\ UNCHANGED <<status, stderr, argc, arg2, inter, interval, row, quit, csv,
                   data, old_inb, old_outb, old_tv, s,
                   iter, woken, osq, ifs, usec>>

\* line 175 with the signal of line 174 repeated
InstallSigintTwice ==
    /\ pc = "sigterm"
    /\ handlers' = handlers \cup {"SIGINT"}
    /\ pc' = "fopen"
    /\ UNCHANGED <<status, stderr, argc, arg2, inter, interval, row, quit, csv,
                   data, old_inb, old_outb, old_tv, s, iter, woken, osq, ifs, usec>>

\* line 175
InstallSigterm ==
    /\ pc = "sigterm"
    /\ handlers' = handlers \cup {"SIGTERM"}
    /\ pc' = "fopen"
    /\ UNCHANGED <<status, stderr, argc, arg2, inter, interval, row, quit, csv,
                   data, old_inb, old_outb, old_tv, s,
                   iter, woken, osq, ifs, usec>>

\* lines 180-181
Fopen ==
    /\ pc = "fopen"
    /\ \/ /\ csv' = [state |-> "open", lines |-> <<>>, flushed |-> FALSE]
          /\ pc' = "header"
          /\ UNCHANGED <<status, stderr>>
       \/ error("main")
    /\ UNCHANGED <<argc, arg2, inter, interval, row, handlers, quit, data,
                   old_inb, old_outb, old_tv, s, iter,
                   woken, osq, ifs, usec>>

\* fwrite(buf, len, 1, csv) as the n-th write to the stream: the line reaches
\* the stream, or the write fails and nothing is added (at most MaxWriteFail
\* times in a run); the return value is not looked at (lines 184, 221)
fwrite(f, line, n) ==
    {[f EXCEPT !.lines = Append(@, line), !.flushed = FALSE]}
        \cup (IF n - Len(f.lines) <= MaxWriteFail THEN {f} ELSE {})

\* lines 183-184
WriteHeader ==
    /\ pc = "header"
    /\ csv' \in fwrite(csv, "header", 1)
    /\ pc' = "malloc"
    /\ UNCHANGED <<status, stderr, argc, arg2, inter, interval, row, handlers,
                   quit, data, old_inb, old_outb, old_tv, s, iter, woken, osq, ifs, usec>>

\* lines 186-188 followed by a loop that tests quit before its first
\* iteration (while (!quit))
MallocThenCheck ==
    /\ pc = "malloc"
    /\ \/ /\ pc' = "quitcheck"
          /\ UNCHANGED <<status, stderr, csv>>
       \/ error("main")
    /\ UNCHANGED <<argc, arg2, inter, interval, row, handlers, quit, data,
                   old_inb, old_outb, old_tv, s, iter, woken, osq, ifs, usec>>

\* lines 186-188
Malloc ==
    /\ pc = "malloc"
    /\ \/ /\ pc' = "sample"
          /\ UNCHANGED <<status, stderr, csv>>
       \/ error("main")
    /\ UNCHANGED <<argc, arg2, inter, interval, row, handlers, quit, data,
                   old_inb, old_outb, old_tv, s, iter,
                   woken, osq, ifs, usec>>


\* ------------------------------------------------------------- Running
\* "%s,%i,%i\n" of line 220 without the date: the two rates as printed
Format(cur_inb, cur_outb) == <<FormatInt(cur_inb), FormatInt(cur_outb)>>

\* lines 197-220 with a failed read skipped over: the iteration writes no
\* record and goes on to the sleep
SampleSkip(C) ==
    /\ pc = "sample"
    /\ iter < MaxIter \/ quit # 0
    /\ \/ /\ pc' = "usleep"
          /\ UNCHANGED <<status, stderr, csv, data, old_inb, old_outb, old_tv, s>>
       \/ \E ibytes \in C, obytes \in C, new_tv \in Times :
            LET tv == new_tv - old_tv
            IN  \E cur_inb \in Normalize(Delta(ibytes, old_inb), tv),
                   cur_outb \in Normalize(Delta(obytes, old_outb), tv) :
                    /\ data' = [in |-> ibytes, out |-> obytes]
                    /\ old_inb' = ibytes % Modulus
                    /\ old_outb' = obytes % Modulus
                    /\ old_tv' = new_tv
                    /\ s' = Format(cur_inb, cur_outb)
                    /\ pc' = "write"
                    /\ UNCHANGED <<status, stderr, csv>>
    /\ UNCHANGED <<argc, arg2, inter, interval, row, handlers, quit, iter,
                   woken, osq, ifs, usec>>

\* lines 197-220 without the backup of line 211
SampleNoBackup(C) ==
    /\ pc = "sample"
    /\ iter < MaxIter \/ quit # 0
    /\ \/ /\ error("getifdata")
          /\ UNCHANGED <<data, old_inb, old_outb, old_tv, s>>
       \/ \E ibytes \in C, obytes \in C, new_tv \in Times :
            LET tv == new_tv - old_tv
            IN  \E cur_inb \in Normalize(Delta(ibytes, old_inb), tv),
                   cur_outb \in Normalize(Delta(obytes, old_outb), tv) :
                    /\ data' = [in |-> ibytes, out |-> obytes]
                    /\ old_inb' = ibytes % Modulus
                    /\ old_outb' = old_outb
                    /\ old_tv' = new_tv
                    /\ s' = Format(cur_inb, cur_outb)
                    /\ pc' = "write"
                    /\ UNCHANGED <<status, stderr, csv>>
    /\ UNCHANGED <<argc, arg2, inter, interval, row, handlers, quit, iter,
                   woken, osq, ifs, usec>>

\* lines 197-220: getifdata, gettimeofday, timersub, the two rates, the backup
\* of the counters and the time, the record formatted into s.  The OS hands
\* back any counters in C and any wall-clock time; tv, cur_inb and cur_outb
\* are assigned and last read inside these lines.
SampleOf(C) ==
    /\ pc = "sample"
    /\ iter < MaxIter \/ quit # 0
    /\ \/ /\ error("getifdata")                          \* line 91
          /\ UNCHANGED <<data, old_inb, old_outb, old_tv, s>>
       \/ \E ibytes \in C, obytes \in C, new_tv \in Times :
            LET tv == new_tv - old_tv
            IN  \E cur_inb \in Normalize(Delta(ibytes, old_inb), tv),
                   cur_outb \in Normalize(Delta(obytes, old_outb), tv) :
                    /\ data' = [in |-> ibytes, out |-> obytes]
                    /\ old_inb' = ibytes % Modulus
                    /\ old_outb' = obytes % Modulus
                    /\ old_tv' = new_tv
                    /\ s' = Format(cur_inb, cur_outb)
                    /\ pc' = "write"
                    /\ UNCHANGED <<status, stderr, csv>>
    /\ UNCHANGED <<argc, arg2, inter, interval, row, handlers, quit, iter,
                   woken, osq, ifs, usec>>

\* line 221: fwrite(s, strlen(s), 1, csv)
Write ==
    /\ pc = "write"
    /\ csv' \in fwrite(csv, "record", iter + 2)
    /\ iter' = iter + 1
    /\ pc' = "quitcheck"
    /\ UNCHANGED <<status, stderr, argc, arg2, inter, interval, row, handlers,
                   quit, data, old_inb, old_outb, old_tv, s, woken, osq, ifs, usec>>

\* lines 224-225 with the test inverted (if (!quit) break)
QuitCheckInverted ==
    /\ pc = "quitcheck"
    /\ IF quit = 0
       THEN pc' = "fflush" /\ s' = <<>>
       ELSE pc' = "usleep" /\ s' = s
    /\ UNCHANGED <<status, stderr, argc, arg2, inter, interval, row, handlers,
                   quit, csv, data, old_inb, old_outb, old_tv, iter, woken, osq, ifs, usec>>

\* lines 224-225
QuitCheck ==
    /\ pc = "quitcheck"
    /\ IF quit # 0
       THEN pc' = "fflush" /\ s' = <<>>       \* break leaves the block of s
       ELSE pc' = "usleep" /\ s' = s
    /\ UNCHANGED <<status, stderr, argc, arg2, inter, interval, row, handlers,
                   quit, csv, data, old_inb, old_outb, old_tv, iter, woken, osq, ifs, usec>>

\* line 228: usleep() is entered
Usleep ==
    /\ pc = "usleep"
    /\ pc' = "sleeping"
    /\ usec' \in usleepArg(interval)
    /\ UNCHANGED <<status, stderr, argc, arg2, inter, interval, row, handlers,
                   quit, csv, data, old_inb, old_outb, old_tv, s, iter, woken, osq, ifs>>

\* line 228 followed by a test of quit before the loop is taken up again
WakeChecked ==
    /\ pc = "sleeping"
    /\ pc' = IF quit # 0 THEN "fflush" ELSE "sample"
    /\ s' = <<>>
    /\ usec' = 0
    /\ UNCHANGED <<status, stderr, argc, arg2, inter, interval, row, handlers,
                   quit, csv, data, old_inb, old_outb, old_tv, iter, woken, osq, ifs>>

\* line 228: the interval has elapsed, usleep() returns 0; the loop body's
\* block ends and with it the lifetime of s
Wake ==
    /\ pc = "sleeping"
    /\ pc' = "sample"
    /\ s' = <<>>
    /\ usec' = 0
    /\ UNCHANGED <<status, stderr, argc, arg2, inter, interval, row, handlers,
                   quit, csv, data, old_inb, old_outb, old_tv, iter, woken, osq, ifs>>

\* ------------------------------------------------------------- Draining
\* line 231
Fflush ==
    /\ pc = "fflush"
    /\ csv' = [csv EXCEPT !.flushed = TRUE]
    /\ pc' = "fclose"
    /\ UNCHANGED <<status, stderr, argc, arg2, inter, interval, row, handlers,
                   quit, data, old_inb, old_outb, old_tv, s, iter, woken, osq, ifs, usec>>

\* line 232
Fclose ==
    /\ pc = "fclose"
    /\ csv' = [csv EXCEPT !.state = "closed"]
    /\ pc' = "return"
    /\ UNCHANGED <<status, stderr, argc, arg2, inter, interval, row, handlers,
                   quit, data, old_inb, old_outb, old_tv, s, iter, woken, osq, ifs, usec>>

\* line 234
Return ==
    /\ pc = "return"
    /\ status' = "exit0"
    /\ pc' = "exited"
    /\ UNCHANGED <<stderr, argc, arg2, inter, interval, row, handlers, quit,
                   csv, data, old_inb, old_outb, old_tv, s, iter, woken, osq, ifs, usec>>

\* ------------------------------------------------------------- signals
\* a handler that flips the flag (quit = !quit)
signalhandlerFlip == quit' = 1 - quit

\* signalhandler(), lines 74-78
signalhandler == quit' = 1

\* SIGINT or SIGTERM is delivered to the live process.  With signalhandler
\* installed the handler runs and a usleep() in progress returns early (EINTR);
\* with the default disposition the process is terminated on the spot and
\* what the stream buffers is lost.
Deliver(sig) ==
    /\ status = "running"
    /\ IF sig \in handlers
       THEN /\ signalhandler
            /\ IF pc = "sleeping"
               THEN pc' = "sample" /\ woken' = TRUE /\ s' = <<>> /\ usec' = 0
               ELSE UNCHANGED <<pc, woken, s, usec>>
            /\ UNCHANGED status
       ELSE /\ status' = "killed"
            /\ pc' = "exited"
            /\ UNCHANGED <<quit, woken, s, usec>>
    /\ UNCHANGED <<stderr, argc, arg2, inter, interval, row, handlers, csv,
                   data, old_inb, old_outb, old_tv, iter,
                   osq, ifs>>

Signal == \E sig \in Signals : Deliver(sig)

\* ------------------------------------------------------------- the program
MainOf(C) ==
    \/ CheckArgc
    \/ ParseInterval
    \/ Resolve
    \/ RowCheck
    \/ InstallSigint
    \/ InstallSigterm
    \/ Fopen
    \/ WriteHeader
    \/ Malloc
    \/ SampleOf(C)
    \/ Write
    \/ QuitCheck
    \/ Usleep
    \/ Wake
    \/ Fflush
    \/ Fclose
    \/ Return

Main == MainOf(Counters)

Next == Main \/ Signal

Spec == Init /\ [][Next]_vars

\* The same program on an interface without traffic: the counters stay 0.
\* No branch of main() reads a counter or a rate, so the positions main() can
\* reach, and when, are those of Spec.
Idle == MainOf({0})

IdleNext == Idle \/ Signal


\* Liveness: main() keeps running while it can, and a usleep() that is not
\* interrupted returns once the interval has elapsed
FairSpec == Init /\ [][IdleNext]_vars /\ WF_vars(Idle)

\* The program on the idle interface, started with an interval argument of
\* digits whose value, or whose product with a million, is no int
LongInit == InitOf(LongStrings)

\* The program on a busy interface whose counters have passed 2^32
Busy == MainOf(WideCounters)

WideNext == Busy \/ Signal

WideSpec == Init /\ [][WideNext]_vars

LongSpec == LongInit /\ [][IdleNext]_vars

\* ------------------------------------------------------------- vocabulary
Starting == {"argc", "digits", "getifrow", "rowcheck", "sigint", "sigterm",
             "fopen", "header", "malloc"}
Running == {"sample", "write", "quitcheck", "usleep", "sleeping"}
Draining == {"fflush", "fclose", "return"}
\* main() is past line 175: both signal() calls have been made
PastSignal == {"fopen", "header", "malloc"} \cup Running \cup Draining

\* a step of Sample that took a snapshot (the counter read succeeded)
Sampled == pc = "sample" /\ pc' = "write"

\* the exact quotient (curr - prev) / elapsed, truncated
TrueRate(prev, curr, e) == ((curr - prev) * TicksPerSec) \div e

Records(n) == [i \in 1 .. n |-> "record"]

\* argv[2] holds a character other than 0-9
NonDigitInterval ==
    \E i \in DOMAIN arg2 :
        arg2[i] \notin {"0", "1", "2", "3", "4", "5", "6", "7", "8", "9"}

\* ------------------------------------------------------------- claims

\* C1: the first record written by the loop (the iteration without a previous
\* snapshot) has in_rate = 0 and out_rate = 0, whatever the counters are.
C1_FirstRecordZero ==
    (pc = "quitcheck" /\ iter = 1) => s = <<0, 0>>

\* C2: in an iteration whose elapsed time since the previous snapshot is zero
\* or negative, both rates written are 0.
C2_NonPositiveElapsedZero ==
    [][(Sampled /\ iter >= 1 /\ old_tv' - old_tv <= 0) => s' = <<0, 0>>]_vars

\* C3: for consecutive snapshots with elapsed > 0 and non-decreasing counters
\* the rate written for each direction is (curr - prev) / elapsed truncated,
\* and is not negative as printed.
C3_RateIsTruncatedQuotient ==
    [][(/\ Sampled
        /\ iter >= 1
        /\ old_tv' - old_tv > 0
        /\ data'.in >= data.in
        /\ data'.out >= data.out)
       => /\ s' = <<TrueRate(data.in, data'.in, old_tv' - old_tv),
                    TrueRate(data.out, data'.out, old_tv' - old_tv)>>
          /\ s'[1] >= 0
          /\ s'[2] >= 0]_vars

\* C4: once the file is open and the header has been written, the file holds
\* exactly one header line followed by one data line per iteration that has
\* reached its write.
C4_HeaderThenOneLinePerIteration ==
    (csv.state # "none" /\ pc # "header")
        => csv.lines = <<"header">> \o Records(iter)

\* C5 as stated: a signal during the sleep always ends in exit status 0, so
\* a process woken by a signal never ends with status 1.
C5_WokenExitsZero ==
    woken => status # "exit1"

\* C5, amended: a signal delivered during the sleep ends the sleep at once;
\* no further usleep is started; the process then exits with status 0, the
\* file flushed and closed and one more record handed to fwrite, unless the
\* counter read of that last iteration fails, which exits with status 1.
C5_SignalInSleepShutsDown ==
    /\ [](woken => (quit = 1 /\ pc \notin {"usleep", "sleeping"}))
    /\ [][(woken' /\ ~woken) => (pc = "sleeping" /\ pc' = "sample")]_vars
    /\ woken ~> (status = "exit0" \/ (status = "exit1" /\ stderr = "getifdata"))
    /\ []((woken /\ status = "exit0")
            => (csv.state = "closed" /\ csv.flushed /\ iter >= 2))

C5_Witness ==
    woken /\ status = "exit0" /\ csv.state = "closed" /\ csv.flushed

\* C6: a SIGINT or SIGTERM delivered at any point of Running is not lost: the
\* flag stays set once set and, unless a counter read fails, the process
\* reaches exit status 0.
C6_CancellationNotDropped ==
    /\ [][quit = 1 => quit' = 1]_vars
    /\ (pc \in Running /\ quit = 1) ~> (status = "exit0" \/ stderr = "getifdata")

\* the signal arrived between the flag check and the start of the sleep: the
\* flag is set and the sleep runs its full interval
C6_Witness ==
    pc = "sleeping" /\ quit = 1

\* C7 as stated: SIGINT and SIGTERM never end the process abruptly, whenever
\* they are delivered.
C7_NeverAbrupt ==
    status # "killed"

\* C7, amended: a SIGINT or SIGTERM delivered once main() is past the two
\* signal() calls of lines 174-175 never ends the process abruptly: it sets
\* the flag, and the process then exits with status 0, the file flushed and
\* closed, unless a fatal error (fopen, malloc, getifdata) exits with status 1
\* first.  Abrupt termination happens only up to line 175.
C7_GracefulOnceInstalled ==
    /\ [][status' = "killed" => pc \notin PastSignal]_vars
    /\ (quit = 1 /\ pc \in PastSignal)
          ~> (status = "exit0" \/ (status = "exit1" /\ stderr # "none"))
    /\ [](status = "exit0" => (quit = 1 /\ csv.state = "closed" /\ csv.flushed))

C7_Witness ==
    status = "exit0" /\ quit = 1 /\ csv.state = "closed" /\ csv.flushed /\ ~woken

\* C8: a failed write (of the header or of a record) ends the process with
\* exit status 1 and a diagnostic; it neither goes on sampling nor exits 0.
C8_WriteFailureIsFatal ==
    [][(pc \in {"header", "write"} /\ pc' # pc /\ csv'.lines = csv.lines)
       => (status' = "exit1" /\ stderr' # "none")]_vars

\* C9: a failure in Starting ends the process with a non-zero status before
\* Running is entered, and the file is opened only after the interface has
\* been resolved: Running is entered only with every step of Starting having
\* succeeded, and a file exists only with a resolved row.
C9_StartingFailureIsFatal ==
    /\ pc \in Running =>
          /\ argc = 4
          /\ ~NonDigitInterval
          /\ row >= 1
          /\ handlers = Signals
          /\ csv.state = "open"
          /\ csv.lines # <<>>
          /\ csv.lines[1] = "header"
    /\ csv.state # "none" => row >= 1
    /\ (row = -1 /\ status = "exit1") => (csv.state = "none" /\ stderr = "main")

\* C10: with an argument count other than three or an interval argument that
\* holds a non-digit, the process gets no further than the two argument
\* checks: it prints the usage message and exits with status 1 (unless a
\* signal ends it first), and no OS query is made, no handler installed and
\* no file opened.
C10_BadArgumentsAreUsageErrors ==
    (argc # 4 \/ NonDigitInterval) =>
        /\ pc \in {"argc", "digits", "exited"}
        /\ status \in {"running", "exit1", "killed"}
        /\ status = "exit1" => stderr = "usage"
        /\ status # "exit1" => stderr = "none"
        /\ ~osq
        /\ handlers = {}
        /\ csv.state = "none"

C10_Witness ==
    argc = 4 /\ NonDigitInterval /\ status = "exit1" /\ stderr = "usage"

\* C11: a counter read that fails in an iteration of Running ends the process
\* at once with exit status 1: every step out of the read either has taken a
\* snapshot or is the exit with getifdata's diagnostic, without a record
\* written for that iteration; the read is not repeated and, the process
\* having ended, nothing runs afterwards.
C11_ReadFailureIsFatal ==
    /\ [][(pc = "sample" /\ pc' # "write" /\ quit' = quit)
            => /\ status' = "exit1"
               /\ stderr' = "getifdata"
               /\ pc' = "exited"
               /\ csv'.lines = csv.lines
               /\ iter' = iter]_vars
    /\ [][status = "running"]_vars
    /\ [](status # "running" => pc = "exited")

\* the read of the second or a later iteration has failed
C11_Witness ==
    status = "exit1" /\ stderr = "getifdata" /\ iter >= 1 /\ pc = "exited"

\* C12 as stated: when the sleep has returned and the flag is set, no further
\* counter read is made before the file is flushed and closed.
C12_NoReadAfterWake ==
    [][(pc = "sample" /\ iter >= 1 /\ quit = 1) => pc' # "write"]_vars

\* C12, amended: the flag is looked at only after the write of line 221.  A
\* sleep that returns, interrupted or elapsed, always leads back to the
\* counter read; with the flag set the loop then makes exactly one further
\* read and hands exactly one further record to fwrite, and goes from the
\* flag test to the flush without another sleep, ending with status 0 unless
\* that read fails.
C12_OneMoreCycleThenDrain ==
    /\ [][(pc = "sleeping" /\ pc' # pc) => pc' = "sample"]_vars
    /\ [][(pc = "sample" /\ pc' # pc)
            => (pc' = "write" \/ (status' = "exit1" /\ stderr' = "getifdata"))]_vars
    /\ [][(pc = "quitcheck" /\ quit = 1 /\ pc' # pc) => pc' = "fflush"]_vars
    /\ \A k \in 1 .. MaxIter :
          (pc = "sample" /\ iter = k /\ quit = 1)
              ~> \/ status = "exit0" /\ iter = k + 1 /\ csv.state = "closed"
                 \/ status = "exit1" /\ stderr = "getifdata"

\* the sleep was cut short, and the record of the further iteration has been
\* handed to fwrite
C12_Witness ==
    woken /\ quit = 1 /\ pc = "quitcheck" /\ iter = 2

\* C13: for every interval argument accepted by the validation the sleep asked
\* for in each iteration is that many seconds: the decimal value of the
\* argument times a million microseconds.
C13_SleepIsTheInterval ==
    pc = "sleeping" => usec = strtol(arg2) * UsecPerSec

C15_PreviousEqualsSnapshot ==
    (pc = "sample" /\ iter >= 1)
        => (old_inb = data.in /\ old_outb = data.out)

\* C15, amended: the previous snapshot is stored by the step that read it and
\* by no other step, so at the start of every iteration after the first it is
\* that of the immediately preceding iteration: its timestamp, and of each
\* byte counter the value modulo 2^32 (the counters are stored in 32 bits).
C15_PreviousIsPrecedingSnapshot ==
    /\ [][Sampled => /\ old_inb' = data'.in % Modulus
                     /\ old_outb' = data'.out % Modulus]_vars
    /\ [][~Sampled => UNCHANGED <<data, old_inb, old_outb, old_tv>>]_vars
    /\ []((pc = "sample" /\ iter >= 1)
            => (old_inb = data.in % Modulus /\ old_outb = data.out % Modulus))

\* an iteration after the first starts with a previous counter of 2^32 or
\* more stored in 32 bits
C15_Witness ==
    /\ pc = "sample"
    /\ iter >= 1
    /\ data.in >= Modulus
    /\ old_inb = data.in % Modulus
    /\ old_inb # data.in

\* C16: getifrow returns the lowest index of 1..N whose name equals the
\* target, and -1 exactly when no index of 1..N matches (N = 0 included);
\* main ends with exit status 1 and its own diagnostic on -1, no file opened.
C16_LowestMatchingRow ==
    /\ [](pc = "rowcheck" =>
            /\ row \in {-1} \cup (1 .. Len(ifs))
            /\ row >= 1 => /\ ifs[row] = inter
                           /\ \A j \in 1 .. (row - 1) : ifs[j] # inter
            /\ row = -1 <=> (\A j \in 1 .. Len(ifs) : ifs[j] # inter))
    /\ [][(pc = "rowcheck" /\ row = -1 /\ pc' # pc /\ status' # "killed")
            => /\ status' = "exit1"
               /\ stderr' = "main"
               /\ pc' = "exited"
               /\ csv'.state = "none"]_vars

\* two rows carry the target's name and the first one is returned
C16_Witness ==
    /\ pc = "rowcheck"
    /\ Len(ifs) = 2
    /\ ifs[1] = inter
    /\ ifs[2] = inter
    /\ row = 1

C18_DeltaModulo ==
    /\ []((pc = "sample" /\ iter >= 1)
            => \A c \in WideCounters :
                  /\ Delta(c, old_inb) = (c - data.in) % Modulus
                  /\ (c - data.in) \in Words => Delta(c, old_inb) = c - data.in
                  /\ Delta(c, old_outb) = (c - data.out) % Modulus
                  /\ Delta(c, old_inb) >= 0)
    /\ [][(Sampled /\ iter >= 1 /\ old_tv' - old_tv = TicksPerSec)
            => /\ s'[1] = FormatInt((data'.in - data.in) % Modulus)
               /\ s'[2] = FormatInt((data'.out - data.out) % Modulus)]_vars

\* the counter went from below 2^32 to above it, the increase of 2 is written
C18_Witness ==
    /\ pc = "write"
    /\ iter >= 1
    /\ data.in = Modulus + 1
    /\ old_inb = 1
    /\ s[1] = FormatInt(2)

====
